---- MODULE Spec2Model ----
(***************************************************************************)
(* A model of graphing/findPricesAndTimestamps_BWORK.py: the ordered       *)
(* series of (timestamp, block, price) observations kept in three parallel *)
(* lists, the merge (add_data_point), the start-up backfill                *)
(* (collect_historical_data), the search for missing target times          *)
(* (get_missing_timestamps) and the timestamp -> block estimate with its   *)
(* refinement loop.  Timestamps are UTC epoch seconds, as in the source.   *)
(***************************************************************************)
EXTENDS Integers, Sequences, FiniteSets, TLC

VARIABLES
    timestamps,   \* ArrayOfTimestamps
    blocks,       \* ArrayOfBlocksSearched
    prices,       \* ArrayOfActualPrices
    merged_as,    \* history: how each retained entry entered the series
    lastOp,       \* history: the last call made on the series and its arguments
    calls,        \* history: number of calls made so far
    merged,       \* history: the observations passed to add_data_point, in call order
    pc,           \* position of the running function
    current_block,            \* as read by get_current_block_and_timestamp
    current_timestamp,
    target_days,              \* argument of get_missing_timestamps
    missing_timestamps,       \* its result, the work list of the backfill
    chain,        \* the chain behind w3: its head and its block timestamps
    loc,          \* locals of the block search: target, estimate, attempts
    saved,        \* the three lists as last written to DATA_FILE by save_data
    idx,          \* i + 1 of the loop of collect_historical_data
    to_collect,   \* target_times_to_collect still to be handled in this pass
    ticks,        \* history: passes of the monitoring loop begun
    faults,       \* history: calls of the chain reader that have failed
    cal,          \* a call of is_target_time and get_next_target_time: arguments and results
    retry         \* locals of get_storage_with_retry: attempt, reads made, outcome

storeVars == <<timestamps, blocks, prices, merged_as>>
histVars == <<lastOp, calls, merged>>
clockVars == <<current_block, current_timestamp>>
missingVars == <<target_days, missing_timestamps>>
mainVars == <<saved, idx, to_collect, ticks, faults>>
callVars == <<cal, retry>>
vars == <<timestamps, blocks, prices, merged_as, lastOp, calls, merged, pc,
          current_block, current_timestamp, target_days, missing_timestamps,
          chain, loc, saved, idx, to_collect, ticks, faults, cal, retry>>

----------------------------------------------------------------------------
(* Program constants *)

MAX_DATA_POINTS == 4 * 30
TARGET_HOURS == <<0, 6, 12, 18>>
SECONDS_PER_DAY == 24 * 60 * 60

----------------------------------------------------------------------------
(* Arithmetic and list helpers (Python built-ins) *)

Abs(x) == IF x < 0 THEN -x ELSE x
Min(a, b) == IF a < b THEN a ELSE b
Max(a, b) == IF a > b THEN a ELSE b

Range(s) == {s[i] : i \in 1..Len(s)}

\* list.insert(pos, x) with a 0-based position pos in 0..len(s)
ListInsert(s, pos, x) == SubSeq(s, 1, pos) \o <<x>> \o SubSeq(s, pos + 1, Len(s))

\* list.pop()
ListPop(s) == SubSeq(s, 1, Len(s) - 1)

\* A variant that pops at the end, pop() for pop(0)
ListPopBack(s, n) == SubSeq(s, 1, Len(s) - n)

\* n times list.pop(0)
ListPopFront(s, n) == SubSeq(s, n + 1, Len(s))

----------------------------------------------------------------------------
(* Calendar functions *)

\* dt.hour * 60 + dt.minute of datetime.fromtimestamp(timestamp, tz=utc)
MinuteOfDay(timestamp) == (timestamp % SECONDS_PER_DAY) \div 60

is_target_time(timestamp, tolerance_minutes) ==
    \E k \in 1..Len(TARGET_HOURS) :
        LET minutes_from_target == Abs(MinuteOfDay(timestamp) - TARGET_HOURS[k] * 60)
        IN  Min(minutes_from_target, 24 * 60 - minutes_from_target) <= tolerance_minutes

get_target_timestamps_for_day(day_timestamp) ==
    LET start_of_day == day_timestamp - (day_timestamp % SECONDS_PER_DAY)
    IN  [k \in 1..Len(TARGET_HOURS) |-> start_of_day + TARGET_HOURS[k] * 3600]

\* A variant that also accepts a target time equal to the current timestamp
get_next_target_time_or_now(current_ts) ==
    LET today_targets == get_target_timestamps_for_day(current_ts)
        next_day == current_ts + (24 * 60 * 60)
    IN  IF \E k \in 1..Len(today_targets) : today_targets[k] >= current_ts
        THEN today_targets[CHOOSE k \in 1..Len(today_targets) :
                 /\ today_targets[k] >= current_ts
                 /\ \A h \in 1..(k - 1) : ~(today_targets[h] >= current_ts)]
        ELSE get_target_timestamps_for_day(next_day)[1]

\* lines 342-355: the first of today's targets later than the current
\* timestamp, or the first target of the next day
get_next_target_time(current_ts) ==
    LET today_targets == get_target_timestamps_for_day(current_ts)
        next_day == current_ts + (24 * 60 * 60)
    IN  IF \E k \in 1..Len(today_targets) : today_targets[k] > current_ts
        THEN today_targets[CHOOSE k \in 1..Len(today_targets) :
                 /\ today_targets[k] > current_ts
                 /\ \A h \in 1..(k - 1) : ~(today_targets[h] > current_ts)]
        ELSE get_target_timestamps_for_day(next_day)[1]

----------------------------------------------------------------------------
(* get_missing_timestamps *)

\* line 218: list.sort() on a list of integers: entry i goes to the place
\* given by the number of smaller entries and of equal entries before it
ListSort(s) ==
    LET n == Len(s)
        place == SubSeq([i \in 1..n |->
                            Cardinality({j \in 1..n : s[j] < s[i]})
                                + Cardinality({j \in 1..(i - 1) : s[j] = s[i]}) + 1], 1, n)
    IN  [k \in 1..n |-> s[CHOOSE i \in 1..n : place[i] = k]]

\* A variant that also returns a target time equal to the current timestamp
is_missing_or_now(existing_set, target_ts, current_ts) ==
    /\ target_ts <= current_ts
    /\ target_ts \notin existing_set
    /\ ~\E existing_ts \in existing_set : Abs(existing_ts - target_ts) < 30 * 60

\* A variant with a tolerance of 10 minutes
is_missing_narrow(existing_set, target_ts, current_ts) ==
    /\ target_ts < current_ts
    /\ target_ts \notin existing_set
    /\ ~\E existing_ts \in existing_set : Abs(existing_ts - target_ts) < 10 * 60

\* lines 206-214: the test made on one target timestamp
is_missing(existing_set, target_ts, current_ts) ==
    /\ target_ts < current_ts
    /\ target_ts \notin existing_set
    /\ ~\E existing_ts \in existing_set : Abs(existing_ts - target_ts) < 30 * 60

\* lines 200-204: the target timestamps in the order the loops visit them,
\* days_back = 0 .. n_days - 1 and the four target hours of each day
visited_targets(current_ts, n_days) ==
    [n \in 1..(n_days * Len(TARGET_HOURS)) |->
        LET days_back == (n - 1) \div Len(TARGET_HOURS)
            day_timestamp == current_ts - (days_back * 24 * 60 * 60)
        IN  get_target_timestamps_for_day(day_timestamp)[((n - 1) % Len(TARGET_HOURS)) + 1]]

\* lines 197-215: the list built by the loops
missing_from(existing_set, current_ts, n_days) ==
    LET kept(target_ts) == is_missing(existing_set, target_ts, current_ts)
    IN  SelectSeq(visited_targets(current_ts, n_days), kept)

get_missing_timestamps(ts, current_ts, n_days) ==
    ListSort(missing_from(Range(ts), current_ts, n_days))

----------------------------------------------------------------------------
(* add_data_point *)

\* A variant that never drops the last entry
pops_last_never(ts, is_target) == FALSE

\* lines 314-321: the last entry is dropped before a non-target insertion
\* when its own timestamp is not close to a target time
pops_last(ts, is_target) ==
    /\ ~is_target
    /\ Len(ts) > 0
    /\ ~is_target_time(ts[Len(ts)], 30)

\* A variant that always appends, as a slip in the position search would
add_insert_pos_append(ts, new_timestamp) == Len(ts)

\* lines 323-328: 0-based position of the first entry later than new_timestamp
add_insert_pos(ts, new_timestamp) ==
    IF \E i \in 1..Len(ts) : new_timestamp < ts[i]
    THEN (CHOOSE i \in 1..Len(ts) :
              /\ new_timestamp < ts[i]
              /\ \A j \in 1..(i - 1) : ~(new_timestamp < ts[j])) - 1
    ELSE Len(ts)

\* lines 334-338: number of pop(0) made by the eviction loop
add_evict_count(len) == IF len > MAX_DATA_POINTS THEN len - MAX_DATA_POINTS ELSE 0

\* A variant that inserts the timestamp into each of the lists
add_data_point_inserts_timestamp(arr, ts, new_timestamp, new_value, is_target) ==
    LET popped == pops_last(ts, is_target)
        ts1    == IF popped THEN ListPop(ts) ELSE ts
        arr1   == IF popped THEN ListPop(arr) ELSE arr
        arr2   == ListInsert(arr1, add_insert_pos(ts1, new_timestamp), new_timestamp)
    IN  ListPopFront(arr2, add_evict_count(Len(ts1) + 1))

\* The effect of add_data_point on one of the parallel lists `arr`, the
\* decisions being taken on the timestamps list `ts` as in the source.
add_data_point(arr, ts, new_timestamp, new_value, is_target) ==
    LET popped == pops_last(ts, is_target)
        ts1    == IF popped THEN ListPop(ts) ELSE ts
        arr1   == IF popped THEN ListPop(arr) ELSE arr
        arr2   == ListInsert(arr1, add_insert_pos(ts1, new_timestamp), new_value)
    IN  ListPopFront(arr2, add_evict_count(Len(ts1) + 1))

----------------------------------------------------------------------------
(* collect_historical_data: the insertion of one resolved observation *)

\* lines 266-272: 0-based position after the leading entries earlier than
\* actual_timestamp
RECURSIVE historical_insert_pos_from(_, _, _)
historical_insert_pos_from(ts, actual_timestamp, j) ==
    IF j <= Len(ts) /\ actual_timestamp > ts[j]
    THEN historical_insert_pos_from(ts, actual_timestamp, j + 1)
    ELSE j - 1

historical_insert_pos(ts, actual_timestamp) ==
    historical_insert_pos_from(ts, actual_timestamp, 1)

\* lines 274-276 on one of the parallel lists
historical_insert(arr, ts, actual_timestamp, value) ==
    ListInsert(arr, historical_insert_pos(ts, actual_timestamp), value)

----------------------------------------------------------------------------
(* The chain behind w3, and the search of the block of a timestamp *)

MAX_ATTEMPTS == 10

\* A chain is its head block and its block timestamps: t0 at block 0, rate1
\* seconds per block up to block `kink` and rate2 seconds per block after it.
block_timestamp(c, b) ==
    IF b <= c.kink THEN c.t0 + c.rate1 * b
    ELSE c.t0 + c.rate1 * c.kink + c.rate2 * (b - c.kink)

\* w3.eth.get_block(b) returns a block for 0 <= b <= head and raises otherwise
block_exists(c, b) == 0 <= b /\ b <= c.head

\* int(x / 2) for integers x: truncation towards zero
TruncDiv(a, b) == IF a >= 0 THEN a \div b ELSE -((-a) \div b)

\* (a * b) \div c for a, b >= 0 and c > 0, computed in parts so that no
\* intermediate value leaves the 32-bit range for b <= 2^16 and c <= 2^19
product_quotient(a, b, c) ==
    LET ra == a % c
        x  == ra * (b \div 256)
    IN  (a \div c) * b + (x \div c) * 256 + (((x % c) * 256) + ra * (b % 256)) \div c

\* int(time_diff / seconds_per_block) with seconds_per_block =
\* actual_time_diff / actual_block_diff (lines 156, 165), as the exact
\* quotient truncated towards zero
blocks_diff_at_rate(time_diff, actual_time_diff, actual_block_diff) ==
    IF time_diff >= 0
    THEN product_quotient(time_diff, actual_block_diff, actual_time_diff)
    ELSE -product_quotient(-time_diff, actual_block_diff, actual_time_diff)

\* A variant that adds the block difference to the current block
estimate_block_added(target_timestamp, cur_block, cur_timestamp, c, sample_ok) ==
    cur_block + TruncDiv(cur_timestamp - target_timestamp, 2)

\* lines 140-177; sample_ok tells whether the read of the block of 24 hours
\* ago (line 148) succeeds
estimate_block_from_timestamp(target_timestamp, cur_block, cur_timestamp, c, sample_ok) ==
    LET blocks_24h_ago_estimate == (24 * 60 * 60) \div 2
        sample_block_24h_ago == Max(1, cur_block - blocks_24h_ago_estimate)
        time_diff == cur_timestamp - target_timestamp
    IN  IF sample_ok /\ block_exists(c, sample_block_24h_ago)
        THEN LET sample_timestamp_24h_ago == block_timestamp(c, sample_block_24h_ago)
                 actual_time_diff == cur_timestamp - sample_timestamp_24h_ago
                 actual_block_diff == cur_block - sample_block_24h_ago
                 blocks_diff ==
                     IF actual_block_diff > 0 /\ actual_time_diff > 0
                     THEN blocks_diff_at_rate(time_diff, actual_time_diff, actual_block_diff)
                     ELSE TruncDiv(time_diff, 2)
             IN  Max(1, cur_block - blocks_diff)
        ELSE Max(1, cur_block - TruncDiv(time_diff, 2))

\* lines 246 and 469: the tolerance of the loop at each of its two places
tolerance_of(site) == IF site = "collect_historical_data" THEN 30 * 60 ELSE 10 * 60

\* lines 246 and 469: the loop condition
keeps_refining(actual_timestamp, target_timestamp, attempts, tolerance) ==
    Abs(actual_timestamp - target_timestamp) > tolerance /\ attempts < MAX_ATTEMPTS

\* lines 247-250 and 470-473: the adjusted block
refine_step(estimated_block, actual_timestamp, target_timestamp) ==
    IF actual_timestamp < target_timestamp
    THEN estimated_block + TruncDiv(target_timestamp - actual_timestamp, 2)
    ELSE estimated_block - TruncDiv(actual_timestamp - target_timestamp, 2)

\* lines 244-254 and 467-477 run to their end: the block and timestamp the
\* loop leaves, or ok = FALSE when a get_block raises
RECURSIVE refine(_, _, _, _, _, _)
refine(c, target_timestamp, tolerance, estimated_block, actual_timestamp, attempts) ==
    IF keeps_refining(actual_timestamp, target_timestamp, attempts, tolerance)
    THEN LET next_block == refine_step(estimated_block, actual_timestamp, target_timestamp)
         IN  IF block_exists(c, next_block)
             THEN refine(c, target_timestamp, tolerance, next_block,
                         block_timestamp(c, next_block), attempts + 1)
             ELSE [ok |-> FALSE, block |-> next_block, timestamp |-> actual_timestamp,
                   attempts |-> attempts]
    ELSE [ok |-> TRUE, block |-> estimated_block, timestamp |-> actual_timestamp,
          attempts |-> attempts]

\* lines 238-254 and 461-477: estimate, first read and loop
locate(c, target_timestamp, cur_block, cur_timestamp, site) ==
    LET estimated_block == estimate_block_from_timestamp(target_timestamp, cur_block,
                                                         cur_timestamp, c, TRUE)
    IN  IF block_exists(c, estimated_block)
        THEN refine(c, target_timestamp, tolerance_of(site), estimated_block,
                    block_timestamp(c, estimated_block), 0)
        ELSE [ok |-> FALSE, block |-> estimated_block, timestamp |-> 0, attempts |-> 0]

----------------------------------------------------------------------------
(* The series as an interface: calls of add_data_point and insertions of   *)
(* collect_historical_data with arguments drawn from small sets, starting  *)
(* from a series as load_data returns it.                                  *)

MaxCalls == 3

\* A stored series of canonical observations, six hours apart
BaseStart == 10 * SECONDS_PER_DAY
BaseTs(n) == [i \in 1..n |-> BaseStart + (i - 1) * 6 * 3600]
BlockAt(ts) == 1 + ts \div 2
BaseBlocks(n) == [i \in 1..n |-> BlockAt(BaseTs(n)[i])]
BasePrices(n) == [i \in 1..n |-> i]

LoadedLengths == {0, MAX_DATA_POINTS - 1, MAX_DATA_POINTS}

\* Timestamps offered to the calls: before, inside and after the stored
\* series, on and off the target hours
TsPool ==
    { 100, 105,
      20 * SECONDS_PER_DAY + 3 * 3600,
      20 * SECONDS_PER_DAY + 6 * 3600,
      40 * SECONDS_PER_DAY,
      40 * SECONDS_PER_DAY + 3 * 3600,
      40 * SECONDS_PER_DAY + 3 * 3600 + 300 }

NoOp == [op |-> "load", timestamp |-> 0, block |-> 0, price |-> 0, is_target |-> FALSE]

InitStore ==
    \E n \in LoadedLengths :
        /\ timestamps = BaseTs(n)
        /\ blocks = BaseBlocks(n)
        /\ prices = BasePrices(n)
        /\ merged_as = [i \in 1..n |-> "loaded"]
        /\ calls = 0

NoChain == [t0 |-> 0, kink |-> 0, rate1 |-> 2, rate2 |-> 2, head |-> 0]
NoLoc == [pc |-> "idle", site |-> "none", sample_ok |-> TRUE, target_timestamp |-> 0,
          estimated_block |-> 0, actual_timestamp |-> 0, attempts |-> 0,
          examined |-> <<>>]

\* No call of the calendar functions or of get_storage_with_retry is under way
NoCal == [pc |-> "idle", timestamp |-> 0, tolerance_minutes |-> 0,
          is_target |-> FALSE, next_target |-> 0]

NoRetry == [pc |-> "idle", slot |-> 0, block |-> 0, retries |-> 0, attempt |-> 0,
            reads |-> <<>>, value |-> 0]

NoCalls == cal = NoCal /\ retry = NoRetry

NoFile == [timestamps |-> <<>>, blocks |-> <<>>, prices |-> <<>>]

\* main is not running
NoMain ==
    /\ saved = NoFile
    /\ idx = 0
    /\ to_collect = <<>>
    /\ ticks = 0
    /\ faults = 0

\* Nothing but the series is in use
InterfaceOnly ==
    /\ pc = "interface"
    /\ merged = <<>>
    /\ current_block = 0
    /\ current_timestamp = 0
    /\ target_days = 0
    /\ missing_timestamps = <<>>
    /\ chain = NoChain
    /\ loc = NoLoc
    /\ NoMain

Init ==
    /\ NoCalls
    /\ InitStore
    /\ lastOp = NoOp
    /\ InterfaceOnly

\* Each call carries a fresh price, so that observations can be told apart.
FreshPrice == MAX_DATA_POINTS + calls + 1

AddDataPoint ==
    /\ pc = "interface"
    /\ UNCHANGED callVars
    /\ calls < MaxCalls
    /\ UNCHANGED <<merged, pc, clockVars, missingVars, chain, loc, mainVars>>
    /\ \E new_timestamp \in TsPool, is_target \in BOOLEAN :
        LET new_block == BlockAt(new_timestamp)
            new_price == FreshPrice
        IN  /\ timestamps' = add_data_point(timestamps, timestamps, new_timestamp, new_timestamp, is_target)
            /\ blocks' = add_data_point(blocks, timestamps, new_timestamp, new_block, is_target)
            /\ prices' = add_data_point(prices, timestamps, new_timestamp, new_price, is_target)
            /\ merged_as' = add_data_point(merged_as, timestamps, new_timestamp,
                                           IF is_target THEN "canonical" ELSE "preview", is_target)
            /\ lastOp' = [op |-> "add", timestamp |-> new_timestamp, block |-> new_block,
                          price |-> new_price, is_target |-> is_target]
            /\ calls' = calls + 1

HistoricalInsert ==
    /\ pc = "interface"
    /\ UNCHANGED callVars
    /\ calls < MaxCalls
    /\ UNCHANGED <<merged, pc, clockVars, missingVars, chain, loc, mainVars>>
    /\ \E actual_timestamp \in TsPool :
        LET estimated_block == BlockAt(actual_timestamp)
            price == FreshPrice
        IN  /\ timestamps' = historical_insert(timestamps, timestamps, actual_timestamp, actual_timestamp)
            /\ blocks' = historical_insert(blocks, timestamps, actual_timestamp, estimated_block)
            /\ prices' = historical_insert(prices, timestamps, actual_timestamp, price)
            /\ merged_as' = historical_insert(merged_as, timestamps, actual_timestamp, "canonical")
            /\ lastOp' = [op |-> "insert", timestamp |-> actual_timestamp, block |-> estimated_block,
                          price |-> price, is_target |-> TRUE]
            /\ calls' = calls + 1

Next ==
    \/ AddDataPoint
    \/ HistoricalInsert

Spec == Init /\ [][Next]_vars

----------------------------------------------------------------------------
(* Properties of the series under Spec *)

Sorted(ts) == \A i \in 1..(Len(ts) - 1) : ts[i] <= ts[i + 1]

\* C1: after any sequence of add_data_point calls (target or not) and
\* historical insertions on a series loaded sorted, the series is sorted
\* non-decreasing by timestamp.
C1_SeriesSorted == Sorted(timestamps)

\* C1 witness: a non-target call has put its entry inside a series that also
\* holds an entry added by an earlier call.
C1_Witness ==
    /\ lastOp.op = "add"
    /\ ~lastOp.is_target
    /\ \E i \in 1..(Len(prices) - 1) : prices[i] = lastOp.price
    /\ \E j \in 1..Len(merged_as) : merged_as[j] = "canonical" /\ prices[j] # lastOp.price

\* C2 (as claimed): at every boundary the series holds at most
\* MAX_DATA_POINTS observations.
C2_AtMostMaxPoints == Len(timestamps) <= MAX_DATA_POINTS

\* C3 (as claimed): after a call with is_target = TRUE exactly one entry has
\* the call's timestamp and it carries the call's block and price; after any
\* call no two entries share a timestamp.
C3_EqualTimestampReplaces ==
    lastOp.op = "add" =>
        /\ lastOp.is_target =>
              /\ Cardinality({i \in 1..Len(timestamps) : timestamps[i] = lastOp.timestamp}) = 1
              /\ \A i \in 1..Len(timestamps) :
                    timestamps[i] = lastOp.timestamp =>
                        blocks[i] = lastOp.block /\ prices[i] = lastOp.price
        /\ \A i, j \in 1..Len(timestamps) : i # j => timestamps[i] # timestamps[j]

\* Entry i of the current series is absent from the next one.
Removed(i) == prices[i] \notin Range(prices')

\* Entry i left by the eviction loop: the next series is full and every
\* entry up to i is gone.
EvictedOldestFirst(i) ==
    /\ Len(timestamps') = MAX_DATA_POINTS
    /\ \A j \in 1..i : Removed(j)

\* C4 (as claimed): an entry merged as canonical (is_target = TRUE, or
\* inserted by the backfill) is never removed by a later call, except by the
\* oldest-first eviction.
C4_CanonicalNeverReplaced ==
    [][\A i \in 1..Len(prices) :
          (merged_as[i] = "canonical" /\ Removed(i)) => EvictedOldestFirst(i)]_vars

\* C5 (as claimed): a call with is_target = FALSE whose new entry comes right
\* after a last entry that was itself merged with is_target = FALSE replaces
\* that entry, whatever the time of day of the timestamps.
C5_PreviewReplacesPreview ==
    [][(/\ lastOp'.op = "add"
        /\ calls' = calls + 1
        /\ ~lastOp'.is_target
        /\ Len(timestamps) > 0
        /\ merged_as[Len(timestamps)] = "preview"
        /\ lastOp'.timestamp > timestamps[Len(timestamps)])
       => Removed(Len(prices))]_vars

\* The observations of the series, each as (timestamp, block, price)
Observations ==
    {<<timestamps[k], blocks[k], prices[k]>> : k \in 1..Min(Len(timestamps), Min(Len(blocks), Len(prices)))}

\* C19: the three lists have the same length at all times, and after any
\* call every position holds the timestamp, block and price of one
\* observation: one that was there before the call, or the one the call
\* brought.
C19_ListsAligned ==
    /\ [](Len(timestamps) = Len(blocks) /\ Len(blocks) = Len(prices))
    /\ [][Observations' \subseteq
              (Observations \cup {<<lastOp'.timestamp, lastOp'.block, lastOp'.price>>})]_vars

\* C19 witness: a non-target call has replaced the last entry of a full
\* series and the eviction has not run; the three lists hold 120 entries and
\* the last of each is the call's.
C19_Witness ==
    /\ lastOp.op = "add"
    /\ ~lastOp.is_target
    /\ calls >= 2
    /\ Len(timestamps) = MAX_DATA_POINTS
    /\ Len(blocks) = MAX_DATA_POINTS
    /\ Len(prices) = MAX_DATA_POINTS
    /\ timestamps[MAX_DATA_POINTS] = lastOp.timestamp
    /\ blocks[MAX_DATA_POINTS] = lastOp.block
    /\ prices[MAX_DATA_POINTS] = lastOp.price
    /\ timestamps[1] = BaseStart

----------------------------------------------------------------------------
(* get_missing_timestamps as a function: applied once to a series, a        *)
(* current timestamp and a number of days drawn from small sets.            *)

MissingDay == 40 * SECONDS_PER_DAY

NowPool ==
    { MissingDay, MissingDay + 1, MissingDay + 6 * 3600 + 1799,
      MissingDay + 12 * 3600, MissingDay + SECONDS_PER_DAY - 1 }

ExistingPool ==
    { MissingDay - 29 * SECONDS_PER_DAY + 12 * 3600,
      MissingDay - 2 * SECONDS_PER_DAY + 3 * 3600,
      MissingDay - 6 * 3600,
      MissingDay - 30 * 60,
      MissingDay - 30 * 60 + 1,
      MissingDay + 30 * 60 - 1,
      MissingDay + 6 * 3600 + 30 * 60 }

LookbackPool == {1, 3, 30}

RECURSIVE SetToSortedSeq(_)
SetToSortedSeq(S) ==
    IF S = {} THEN <<>>
    ELSE LET m == CHOOSE x \in S : \A y \in S : x <= y
         IN  <<m>> \o SetToSortedSeq(S \ {m})

InitMissing ==
    /\ NoCalls
    /\ \E E \in SUBSET ExistingPool :
          /\ timestamps = SetToSortedSeq(E)
          /\ blocks = [i \in 1..Cardinality(E) |-> BlockAt(SetToSortedSeq(E)[i])]
          /\ prices = [i \in 1..Cardinality(E) |-> i]
          /\ merged_as = [i \in 1..Cardinality(E) |-> "loaded"]
    /\ current_timestamp \in NowPool
    /\ target_days \in LookbackPool
    /\ current_block = BlockAt(current_timestamp)
    /\ missing_timestamps = <<>>
    /\ pc = "missing_call"
    /\ lastOp = NoOp
    /\ calls = 0
    /\ merged = <<>>
    /\ chain = NoChain
    /\ loc = NoLoc
    /\ NoMain

GetMissingTimestamps ==
    /\ pc = "missing_call"
    /\ UNCHANGED callVars
    /\ missing_timestamps' = get_missing_timestamps(timestamps, current_timestamp, target_days)
    /\ pc' = "missing_done"
    /\ UNCHANGED <<storeVars, histVars, clockVars, target_days, chain, loc, mainVars>>

NextMissing == GetMissingTimestamps

SpecMissing == InitMissing /\ [][NextMissing]_vars

DEDUPE_WINDOW == 30 * 60

\* C7: get_missing_timestamps never returns a timestamp less than 30 minutes
\* away from an existing one, and its result is strictly ascending.
C7_MissingApartAndAscending ==
    pc = "missing_done" =>
        /\ \A i \in 1..Len(missing_timestamps) : \A e \in Range(timestamps) :
              Abs(e - missing_timestamps[i]) >= DEDUPE_WINDOW
        /\ \A i \in 1..(Len(missing_timestamps) - 1) :
              missing_timestamps[i] < missing_timestamps[i + 1]

\* C7 witness: a past target time is left out because an observation lies
\* 29 min 59 s before it, while other target times are returned.
C7_Witness ==
    /\ pc = "missing_done"
    /\ (MissingDay - 30 * 60 + 1) \in Range(timestamps)
    /\ current_timestamp > MissingDay
    /\ MissingDay \notin Range(missing_timestamps)
    /\ Len(missing_timestamps) >= 2

\* The target times of the target_days calendar days ending with the day of now
CanonicalInstants(now, days) ==
    { d * SECONDS_PER_DAY + h * 3600 :
        d \in ((now \div SECONDS_PER_DAY) - days + 1)..(now \div SECONDS_PER_DAY),
        h \in {0, 6, 12, 18} }

\* C8: the result holds exactly the target times of the last target_days
\* days that are strictly before now and not within 30 minutes of an
\* existing timestamp; all of them for an empty series; none at or after now.
C8_MissingExactly ==
    pc = "missing_done" =>
        /\ Range(missing_timestamps) =
              { t \in CanonicalInstants(current_timestamp, target_days) :
                  /\ t < current_timestamp
                  /\ \A e \in Range(timestamps) : Abs(e - t) >= DEDUPE_WINDOW }
        /\ timestamps = <<>> =>
              Range(missing_timestamps) =
                  { t \in CanonicalInstants(current_timestamp, target_days) : t < current_timestamp }
        /\ \A i \in 1..Len(missing_timestamps) : missing_timestamps[i] < current_timestamp

\* C8 witness: on an empty series at 12:00:00 exactly, 30 days give the 116
\* target times of the 29 days before and 00:00 and 06:00 of the day itself.
C8_Witness ==
    /\ pc = "missing_done"
    /\ timestamps = <<>>
    /\ target_days = 30
    /\ current_timestamp = MissingDay + 12 * 3600
    /\ Len(missing_timestamps) = 4 * 29 + 2

----------------------------------------------------------------------------
(* The eviction scenario: observations with strictly increasing timestamps *)
(* merged one by one into an empty series, past MAX_DATA_POINTS.  The      *)
(* first MaxFree calls are flagged as main flags a current block (line     *)
(* 405), 5 minutes, 35 minutes or 6 hours after the previous one; the      *)
(* later ones are target calls six hours apart.                            *)

MaxFree == 3
MaxExtra == 5

EvictStart == 40 * SECONDS_PER_DAY
EvictSteps == {5 * 60, 35 * 60, 6 * 3600}

InitEvict ==
    /\ NoCalls
    /\ timestamps = <<>>
    /\ blocks = <<>>
    /\ prices = <<>>
    /\ merged_as = <<>>
    /\ lastOp = NoOp
    /\ calls = 0
    /\ merged = <<>>
    /\ pc = "evict_run"
    /\ current_block = 0
    /\ current_timestamp = 0
    /\ target_days = 0
    /\ missing_timestamps = <<>>
    /\ chain = NoChain
    /\ loc = NoLoc
    /\ NoMain

MergeIncreasing ==
    /\ pc = "evict_run"
    /\ UNCHANGED callVars
    /\ calls < MAX_DATA_POINTS + MaxExtra
    /\ \E step \in (IF calls < MaxFree THEN EvictSteps ELSE {6 * 3600}) :
        LET new_timestamp == IF merged = <<>> THEN EvictStart + step
                             ELSE merged[Len(merged)].timestamp + step
            is_target == IF calls < MaxFree THEN is_target_time(new_timestamp, 30) ELSE TRUE
            new_block == BlockAt(new_timestamp)
            new_price == FreshPrice
            call == [op |-> "add", timestamp |-> new_timestamp, block |-> new_block,
                     price |-> new_price, is_target |-> is_target]
        IN  /\ timestamps' = add_data_point(timestamps, timestamps, new_timestamp, new_timestamp, is_target)
            /\ blocks' = add_data_point(blocks, timestamps, new_timestamp, new_block, is_target)
            /\ prices' = add_data_point(prices, timestamps, new_timestamp, new_price, is_target)
            /\ merged_as' = add_data_point(merged_as, timestamps, new_timestamp,
                                           IF is_target THEN "canonical" ELSE "preview", is_target)
            /\ lastOp' = call
            /\ merged' = Append(merged, call)
            /\ calls' = calls + 1
    /\ UNCHANGED <<pc, clockVars, missingVars, chain, loc, mainVars>>

NextEvict == MergeIncreasing

SpecEvict == InitEvict /\ [][NextEvict]_vars

\* The series holds exactly the last Min(n, MAX_DATA_POINTS) of the n
\* observations merged so far, in the order they were merged.
HoldsNewestMerged ==
    LET n == Len(merged)
        kept == Min(n, MAX_DATA_POINTS)
    IN  /\ Len(timestamps) = kept
        /\ Len(blocks) = kept
        /\ Len(prices) = kept
        /\ \A i \in 1..kept :
              /\ timestamps[i] = merged[n - kept + i].timestamp
              /\ blocks[i] = merged[n - kept + i].block
              /\ prices[i] = merged[n - kept + i].price

\* An entry that leaves the series otherwise than as the replaced last entry
\* is not later than any entry that stays.
OnlyOldestEvicted ==
    \A i \in 1..Len(prices) :
        (Removed(i) /\ ~(i = Len(prices) /\ pops_last(timestamps, lastOp'.is_target)))
            => \A j \in 1..Len(timestamps') : timestamps[i] <= timestamps'[j]

\* C9 (as claimed): merging observations with strictly increasing timestamps
\* into an empty series leaves exactly the MAX_DATA_POINTS newest, in order.
C9_EvictionKeepsNewest == HoldsNewestMerged

\* C9 (amended): the same when every observation is merged with
\* is_target = TRUE; and in every run the eviction removes only entries that
\* are not later than any entry kept.
C9_EvictionKeepsNewestCanonical ==
    /\ []((\A k \in 1..Len(merged) : merged[k].is_target) => HoldsNewestMerged)
    /\ [][OnlyOldestEvicted]_vars

\* C9 witness: MAX_DATA_POINTS + 5 target observations have been merged and
\* the first five are gone.
C9_Witness ==
    /\ Len(merged) = MAX_DATA_POINTS + 5
    /\ \A k \in 1..Len(merged) : merged[k].is_target
    /\ Len(timestamps) = MAX_DATA_POINTS
    /\ prices[1] = merged[6].price

----------------------------------------------------------------------------
(* The block search step by step, against a chain, a target timestamp and  *)
(* one of the two places of the loop drawn from small sets.                *)

\* Block b at 2 * b seconds, head 1000 at 2000 seconds
SyntheticChain == [t0 |-> 0, kink |-> 0, rate1 |-> 2, rate2 |-> 2, head |-> 1000]

\* Chains whose older blocks are 3 and 5 seconds apart, the recent ones 2
SlowStartChain(rate) == [t0 |-> 0, kink |-> 50000, rate1 |-> rate, rate2 |-> 2, head |-> 100000]

\* A chain whose older blocks are 5 seconds apart and the recent ones 1
SpedUpChain == [t0 |-> 0, kink |-> 50000, rate1 |-> 5, rate2 |-> 1, head |-> 100000]

LocatorChains == {SyntheticChain, SlowStartChain(3), SlowStartChain(5), SpedUpChain}

LocatorTargets(c) ==
    IF c = SyntheticChain
    THEN {50 * k : k \in 0..40}
    ELSE IF c = SpedUpChain
    THEN {block_timestamp(c, b) : b \in {41000, 45000, 50000, 99000}}
    ELSE {block_timestamp(c, b) : b \in {1000, 25000, 40000, 47500, 50000, 60000, 99000}}

InitLocator ==
    /\ NoCalls
    /\ chain \in LocatorChains
    /\ current_block = chain.head
    /\ current_timestamp = block_timestamp(chain, chain.head)
    /\ \E target \in LocatorTargets(chain), site \in {"collect_historical_data", "main"},
          sample_ok \in BOOLEAN :
          loc = [pc |-> "estimate", site |-> site, sample_ok |-> sample_ok,
                 target_timestamp |-> target, estimated_block |-> 0,
                 actual_timestamp |-> 0, attempts |-> 0, examined |-> <<>>]
    /\ pc = "locator"
    /\ timestamps = <<>>
    /\ blocks = <<>>
    /\ prices = <<>>
    /\ merged_as = <<>>
    /\ lastOp = NoOp
    /\ calls = 0
    /\ merged = <<>>
    /\ target_days = 0
    /\ missing_timestamps = <<>>
    /\ NoMain

locatorFrame == <<storeVars, histVars, pc, clockVars, missingVars, chain, mainVars>>

\* lines 238 and 461
LocEstimate ==
    /\ pc = "locator"
    /\ UNCHANGED callVars
    /\ loc.pc = "estimate"
    /\ loc' = [loc EXCEPT !.pc = "first_read",
                           !.estimated_block =
                               estimate_block_from_timestamp(loc.target_timestamp, current_block,
                                                             current_timestamp, chain, loc.sample_ok)]
    /\ UNCHANGED locatorFrame

\* lines 241-245 and 464-468
LocFirstRead ==
    /\ pc = "locator"
    /\ UNCHANGED callVars
    /\ loc.pc = "first_read"
    /\ loc' = IF block_exists(chain, loc.estimated_block)
              THEN [loc EXCEPT !.pc = "loop",
                               !.actual_timestamp = block_timestamp(chain, loc.estimated_block),
                               !.attempts = 0,
                               !.examined = <<loc.estimated_block>>]
              ELSE [loc EXCEPT !.pc = "raised"]
    /\ UNCHANGED locatorFrame

\* lines 246-254 and 469-477: one pass of the loop body
LocRefine ==
    /\ pc = "locator"
    /\ UNCHANGED callVars
    /\ loc.pc = "loop"
    /\ keeps_refining(loc.actual_timestamp, loc.target_timestamp, loc.attempts, tolerance_of(loc.site))
    /\ LET next_block == refine_step(loc.estimated_block, loc.actual_timestamp, loc.target_timestamp)
       IN  loc' = IF block_exists(chain, next_block)
                  THEN [loc EXCEPT !.estimated_block = next_block,
                                   !.actual_timestamp = block_timestamp(chain, next_block),
                                   !.attempts = loc.attempts + 1,
                                   !.examined = Append(loc.examined, next_block)]
                  ELSE [loc EXCEPT !.pc = "raised", !.estimated_block = next_block]
    /\ UNCHANGED locatorFrame

\* lines 246 and 469: the loop condition is false
LocReturn ==
    /\ pc = "locator"
    /\ UNCHANGED callVars
    /\ loc.pc = "loop"
    /\ ~keeps_refining(loc.actual_timestamp, loc.target_timestamp, loc.attempts, tolerance_of(loc.site))
    /\ loc' = [loc EXCEPT !.pc = "returned"]
    /\ UNCHANGED locatorFrame

NextLocator ==
    \/ LocEstimate
    \/ LocFirstRead
    \/ LocRefine
    \/ LocReturn

SpecLocator == InitLocator /\ [][NextLocator]_vars

Residual == Abs(block_timestamp(chain, loc.estimated_block) - loc.target_timestamp)

\* C10: on the chain with 2 seconds per block, current block 1000 at
\* timestamp 2000, the search of any target from 0 to 2000 (1900 among
\* them) never raises, never stops before it returns, makes at most
\* MAX_ATTEMPTS passes and returns a block whose timestamp is within the
\* tolerance of the target.
C10_SyntheticChainConverges ==
    (chain = SyntheticChain /\ pc = "locator") =>
        /\ loc.pc # "raised"
        /\ loc.attempts <= MAX_ATTEMPTS
        /\ loc.pc # "returned" => ENABLED NextLocator
        /\ loc.pc = "returned" =>
              /\ block_exists(chain, loc.estimated_block)
              /\ loc.actual_timestamp = block_timestamp(chain, loc.estimated_block)
              /\ Residual <= tolerance_of(loc.site)

\* C10 witness: the search of 1900 has returned block 950.
C10_Witness ==
    /\ chain = SyntheticChain
    /\ current_block = 1000
    /\ current_timestamp = 2000
    /\ loc.pc = "returned"
    /\ loc.target_timestamp = 1900
    /\ loc.estimated_block = 950

\* The loop has made its MAX_ATTEMPTS passes and the block it holds is
\* still farther from the target than the tolerance.
Exhausted ==
    /\ pc = "locator"
    /\ loc.pc \in {"loop", "returned"}
    /\ loc.attempts = MAX_ATTEMPTS
    /\ Abs(loc.actual_timestamp - loc.target_timestamp) > tolerance_of(loc.site)

\* C11 (as claimed): when the loop stops on its MAX_ATTEMPTS passes without
\* meeting the tolerance the search does not raise, it returns, and the
\* block it returns has the smallest distance |block timestamp - target| of
\* all the blocks the search has read.
C11_ExhaustionReturnsBest ==
    Exhausted =>
        /\ loc.pc = "loop" => ENABLED LocReturn
        /\ loc.pc = "returned" =>
              \A k \in 1..Len(loc.examined) :
                  Residual <= Abs(block_timestamp(chain, loc.examined[k]) - loc.target_timestamp)

\* C12 (as claimed): every block number the search holds once the estimate
\* is made, whether it is the first estimate or an adjusted one, passed to
\* get_block or returned, is at least 1.
C12_BlocksAtLeastOne ==
    (pc = "locator" /\ loc.pc # "estimate") =>
        /\ loc.estimated_block >= 1
        /\ \A k \in 1..Len(loc.examined) : loc.examined[k] >= 1

\* round(d / 2.0) for d >= 0, with a half rounded to the even neighbour
\* (Python's round) and with a half rounded up
RoundHalfEven(d) == IF d % 2 = 0 THEN d \div 2
                    ELSE IF (d \div 2) % 2 = 0 THEN d \div 2 ELSE d \div 2 + 1
RoundHalfUp(d) == (d + 1) \div 2

\* A pass of the loop body
RefinementPass == pc = "locator" /\ loc.pc = "loop" /\ loc'.pc # "returned" /\ loc' # loc

\* C22 (as claimed): a pass of the loop is made only while the block read is
\* farther from the target than the tolerance; it raises the block number
\* when the block read is before the target and lowers it when it is after,
\* by round(|actual_timestamp - target_timestamp| / 2.0) blocks (a half
\* rounded either way).
C22_StepIsRoundedHalfGap ==
    [][RefinementPass =>
          LET gap == Abs(loc.actual_timestamp - loc.target_timestamp)
              moved == loc'.estimated_block - loc.estimated_block
          IN  /\ gap > tolerance_of(loc.site)
              /\ loc.actual_timestamp < loc.target_timestamp => moved > 0
              /\ loc.actual_timestamp > loc.target_timestamp => moved < 0
              /\ Abs(moved) \in {RoundHalfEven(gap), RoundHalfUp(gap)}]_vars

----------------------------------------------------------------------------
(* main: the start-up backfill and the monitoring loop, against a chain of *)
(* 2-second blocks whose reader may fail.                                  *)

MaxTicks == 3
MaxFaults == 1

\* getSlot0(block): the price read at a block, a value fixed by the block
price_at(b) == 1 + (b % 5)

\* The chain started two days before the day main runs on
GenesisTs == 38 * SECONDS_PER_DAY
RunDay == 40 * SECONDS_PER_DAY
MainChain(at) == [t0 |-> GenesisTs, kink |-> 0, rate1 |-> 2, rate2 |-> 2,
                  head |-> (at - GenesisTs) \div 2]

\* Times main is started at: 12:00:00, 12:26:00 and 15:00:00
StartTimes == {RunDay + 12 * 3600, RunDay + 12 * 3600 + 26 * 60, RunDay + 15 * 3600}

\* Files found at start: none, or the observations of 06:00:00 and 11:58:00
LoadedSeries == {<<>>, <<RunDay + 6 * 3600, RunDay + 11 * 3600 + 58 * 60>>}

\* Blocks between the end of the backfill and the first pass, and between
\* two passes (30 seconds; 5 minutes, 25 minutes, 6 hours)
FirstTickBlocks == {15}
TickBlocks == {150, 750, 10800}

Series == [timestamps |-> timestamps, blocks |-> blocks, prices |-> prices]
SeriesNext == [timestamps |-> timestamps', blocks |-> blocks', prices |-> prices']

\* The chain reader may fail while failures remain in the budget
ReaderOutcomes == IF faults < MaxFaults THEN {TRUE, FALSE} ELSE {TRUE}

InitMain ==
    /\ NoCalls
    /\ \E at \in StartTimes : chain = MainChain(at)
    /\ \E ts \in LoadedSeries :
          /\ timestamps = ts
          /\ blocks = [k \in 1..Len(ts) |-> (ts[k] - GenesisTs) \div 2]
          /\ prices = [k \in 1..Len(ts) |-> price_at((ts[k] - GenesisTs) \div 2)]
          /\ merged_as = [k \in 1..Len(ts) |-> "loaded"]
    /\ saved = Series
    /\ pc = "main_start"
    /\ current_block = 0
    /\ current_timestamp = 0
    /\ target_days = 30
    /\ missing_timestamps = <<>>
    /\ idx = 0
    /\ to_collect = <<>>
    /\ ticks = 0
    /\ faults = 0
    /\ lastOp = NoOp
    /\ calls = 0
    /\ merged = <<>>
    /\ loc = NoLoc

\* A variant that goes on to the backfill when the first read fails
MainGetCurrentGoesOn ==
    /\ pc = "main_start"
    /\ UNCHANGED callVars
    /\ \E ok \in ReaderOutcomes :
          IF ok
          THEN /\ current_block' = chain.head
               /\ current_timestamp' = block_timestamp(chain, chain.head)
               /\ pc' = "collect_start"
               /\ UNCHANGED faults
          ELSE /\ pc' = "collect_start"
               /\ faults' = faults + 1
               /\ UNCHANGED clockVars
    /\ UNCHANGED <<storeVars, histVars, missingVars, chain, loc, saved, idx, to_collect, ticks>>

\* lines 362-365
MainGetCurrent ==
    /\ pc = "main_start"
    /\ UNCHANGED callVars
    /\ \E ok \in ReaderOutcomes :
          IF ok
          THEN /\ current_block' = chain.head
               /\ current_timestamp' = block_timestamp(chain, chain.head)
               /\ pc' = "collect_start"
               /\ UNCHANGED faults
          ELSE /\ pc' = "exited"
               /\ faults' = faults + 1
               /\ UNCHANGED clockVars
    /\ UNCHANGED <<storeVars, histVars, missingVars, chain, loc, saved, idx, to_collect, ticks>>

\* lines 223-233
CollectStart ==
    /\ pc = "collect_start"
    /\ UNCHANGED callVars
    /\ \E ok \in ReaderOutcomes :
          IF ok
          THEN /\ missing_timestamps' =
                     get_missing_timestamps(timestamps, current_timestamp, target_days)
               /\ UNCHANGED faults
          ELSE /\ missing_timestamps' = <<>>
               /\ faults' = faults + 1
    /\ idx' = 1
    /\ pc' = "collect_loop"
    /\ UNCHANGED <<storeVars, histVars, clockVars, target_days, chain, loc, saved, to_collect, ticks>>

\* A variant that inserts the timestamp before it reads the price, so that a
\* failing price read leaves the timestamp in the list
CollectOneInsertsFirst ==
    /\ pc = "collect_loop"
    /\ UNCHANGED callVars
    /\ idx <= Len(missing_timestamps)
    /\ LET target_timestamp == missing_timestamps[idx]
           found == locate(chain, target_timestamp, current_block, current_timestamp,
                           "collect_historical_data")
       IN  \E ok \in ReaderOutcomes :
             IF ok /\ found.ok
             THEN /\ timestamps' = historical_insert(timestamps, timestamps, found.timestamp, found.timestamp)
                  /\ blocks' = historical_insert(blocks, timestamps, found.timestamp, found.block)
                  /\ prices' = historical_insert(prices, timestamps, found.timestamp, price_at(found.block))
                  /\ merged_as' = historical_insert(merged_as, timestamps, found.timestamp, "canonical")
                  /\ lastOp' = [op |-> "insert", timestamp |-> found.timestamp, block |-> found.block,
                                price |-> price_at(found.block), is_target |-> TRUE]
                  /\ saved' = IF idx % 20 = 0 THEN SeriesNext ELSE saved
                  /\ UNCHANGED faults
             ELSE /\ faults' = IF ok THEN faults ELSE faults + 1
                  /\ timestamps' = IF found.ok
                                   THEN historical_insert(timestamps, timestamps, found.timestamp, found.timestamp)
                                   ELSE timestamps
                  /\ UNCHANGED <<blocks, prices, merged_as, lastOp, saved>>
    /\ idx' = idx + 1
    /\ UNCHANGED <<calls, merged, pc, clockVars, missingVars, chain, loc, to_collect, ticks>>

\* lines 235-288: one pass of the loop over missing_timestamps
CollectOne ==
    /\ pc = "collect_loop"
    /\ UNCHANGED callVars
    /\ idx <= Len(missing_timestamps)
    /\ LET target_timestamp == missing_timestamps[idx]
           found == locate(chain, target_timestamp, current_block, current_timestamp,
                           "collect_historical_data")
       IN  \E ok \in ReaderOutcomes :
             IF ok /\ found.ok
             THEN /\ timestamps' = historical_insert(timestamps, timestamps, found.timestamp, found.timestamp)
                  /\ blocks' = historical_insert(blocks, timestamps, found.timestamp, found.block)
                  /\ prices' = historical_insert(prices, timestamps, found.timestamp, price_at(found.block))
                  /\ merged_as' = historical_insert(merged_as, timestamps, found.timestamp, "canonical")
                  /\ lastOp' = [op |-> "insert", timestamp |-> found.timestamp, block |-> found.block,
                                price |-> price_at(found.block), is_target |-> TRUE]
                  /\ saved' = IF idx % 20 = 0 THEN SeriesNext ELSE saved
                  /\ UNCHANGED faults
             ELSE /\ faults' = IF ok THEN faults ELSE faults + 1
                  /\ UNCHANGED <<storeVars, lastOp, saved>>
    /\ idx' = idx + 1
    /\ UNCHANGED <<calls, merged, pc, clockVars, missingVars, chain, loc, to_collect, ticks>>

\* lines 290-291 and 378
CollectDone ==
    /\ pc = "collect_loop"
    /\ UNCHANGED callVars
    /\ idx > Len(missing_timestamps)
    /\ saved' = Series
    /\ pc' = "loop"
    /\ UNCHANGED <<storeVars, histVars, clockVars, missingVars, chain, loc, idx, to_collect, ticks, faults>>

\* A variant that adds the current block whatever the last entry
should_add_current_always(ts, cur_timestamp) == TRUE

\* lines 407-414
should_add_current(ts, cur_timestamp) ==
    IF Len(ts) > 0 THEN ~(cur_timestamp - ts[Len(ts)] < 4 * 60) ELSE TRUE

\* lines 440-453: the target times between the last entry and now, today's
\* first, then yesterday's
target_times_between(ts, cur_timestamp) ==
    IF Len(ts) > 0
    THEN LET last_timestamp == ts[Len(ts)]
             wanted(target_ts) ==
                 /\ last_timestamp < target_ts
                 /\ target_ts <= cur_timestamp
                 /\ Abs(cur_timestamp - target_ts) <= 30 * 60
         IN  SelectSeq(visited_targets(cur_timestamp, 2), wanted)
    ELSE <<>>

\* lines 386-454: a pass of the monitoring loop up to the list of target
\* times to collect; the chain has grown since the previous read
TickLive ==
    /\ pc = "loop"
    /\ UNCHANGED callVars
    /\ ticks < MaxTicks
    /\ ticks' = ticks + 1
    /\ \E grown \in (IF ticks = 0 THEN FirstTickBlocks ELSE TickBlocks) :
          chain' = [chain EXCEPT !.head = chain.head + grown]
    /\ \E block_ok \in ReaderOutcomes :
          IF ~block_ok
          THEN \* lines 390-393
               /\ faults' = faults + 1
               /\ UNCHANGED <<storeVars, lastOp, clockVars, saved, to_collect, pc>>
          ELSE /\ current_block' = chain'.head
               /\ current_timestamp' = block_timestamp(chain', chain'.head)
               /\ \E price_ok \in ReaderOutcomes :
                     IF ~price_ok
                     THEN \* getSlot0 raises at line 399, caught at line 504
                          /\ faults' = faults + 1
                          /\ UNCHANGED <<storeVars, lastOp, saved, to_collect, pc>>
                     ELSE LET is_current_target == is_target_time(current_timestamp', 30)
                              current_price == price_at(current_block')
                          IN  /\ IF should_add_current(timestamps, current_timestamp')
                                 THEN /\ timestamps' = add_data_point(timestamps, timestamps,
                                              current_timestamp', current_timestamp', is_current_target)
                                      /\ blocks' = add_data_point(blocks, timestamps,
                                              current_timestamp', current_block', is_current_target)
                                      /\ prices' = add_data_point(prices, timestamps,
                                              current_timestamp', current_price, is_current_target)
                                      /\ merged_as' = add_data_point(merged_as, timestamps,
                                              current_timestamp',
                                              IF is_current_target THEN "canonical" ELSE "preview",
                                              is_current_target)
                                      /\ lastOp' = [op |-> "add", timestamp |-> current_timestamp',
                                                    block |-> current_block', price |-> current_price,
                                                    is_target |-> is_current_target]
                                      /\ saved' = SeriesNext
                                 ELSE UNCHANGED <<storeVars, lastOp, saved>>
                              /\ to_collect' = target_times_between(timestamps', current_timestamp')
                              /\ pc' = "collect_targets"
                              /\ UNCHANGED faults
    /\ UNCHANGED <<calls, merged, missingVars, loc, idx>>

\* lines 456-493: one pass of the loop over target_times_to_collect
TickCollect ==
    /\ pc = "collect_targets"
    /\ UNCHANGED callVars
    /\ to_collect # <<>>
    /\ LET target_ts == Head(to_collect)
           found == locate(chain, target_ts, current_block, current_timestamp, "main")
       IN  \E ok \in ReaderOutcomes :
             IF ok /\ found.ok
             THEN /\ timestamps' = add_data_point(timestamps, timestamps, found.timestamp, found.timestamp, TRUE)
                  /\ blocks' = add_data_point(blocks, timestamps, found.timestamp, found.block, TRUE)
                  /\ prices' = add_data_point(prices, timestamps, found.timestamp, price_at(found.block), TRUE)
                  /\ merged_as' = add_data_point(merged_as, timestamps, found.timestamp, "canonical", TRUE)
                  /\ lastOp' = [op |-> "add", timestamp |-> found.timestamp, block |-> found.block,
                                price |-> price_at(found.block), is_target |-> TRUE]
                  /\ saved' = SeriesNext
                  /\ UNCHANGED faults
             ELSE /\ faults' = IF ok THEN faults ELSE faults + 1
                  /\ UNCHANGED <<storeVars, lastOp, saved>>
    /\ to_collect' = Tail(to_collect)
    /\ UNCHANGED <<calls, merged, pc, clockVars, missingVars, chain, loc, idx, ticks>>

\* lines 495-509: the pass ends and the loop sleeps
TickEnd ==
    /\ pc = "collect_targets"
    /\ UNCHANGED callVars
    /\ to_collect = <<>>
    /\ pc' = "loop"
    /\ UNCHANGED <<storeVars, histVars, clockVars, missingVars, chain, loc, saved, idx, to_collect, ticks, faults>>

NextMain ==
    \/ MainGetCurrent
    \/ CollectStart
    \/ CollectOne
    \/ CollectDone
    \/ TickLive
    \/ TickCollect
    \/ TickEnd

SpecMain == InitMain /\ [][NextMain]_vars

\* Entries of the series in memory that the file does not hold
Unsaved == {k \in 1..Len(timestamps) : timestamps[k] \notin Range(saved.timestamps)}

\* C15 (as claimed): a save follows every change of the series, whether by a
\* merge or by a backfill insertion, so that the file is never more than one
\* observation behind the series in memory.
C15_SavedAfterEveryMutation ==
    (pc \in {"collect_loop", "loop", "collect_targets"}) => Cardinality(Unsaved) <= 1

\* The sleep of line 509 ends and the reader calls return or raise: the loop
\* goes on as long as the process lives
SpecMainFair == SpecMain /\ WF_vars(NextMain)

\* The target instants that pass while the loop runs: 18:00 of the day main
\* is started on, and 00:00 and 06:00 of the next day
MonitoredTargets == {RunDay + 18 * 3600, RunDay + 24 * 3600, RunDay + 30 * 3600}

\* The series holds an observation within 30 minutes of the instant t
Observed(t) == \E k \in 1..Len(timestamps) : Abs(timestamps[k] - t) <= DEDUPE_WINDOW

\* Between two passes: the instant t went by more than 30 minutes before the
\* last block read and the series holds no observation near it
Missed(t) ==
    /\ pc = "loop"
    /\ ticks >= 1
    /\ current_timestamp > t + DEDUPE_WINDOW
    /\ ~Observed(t)

Behind(t) == Missed(t) /\ Len(timestamps) > 0 /\ timestamps[Len(timestamps)] > t

MissedStaysMissed ==
    [][\A t \in MonitoredTargets :
          (~Observed(t) /\ Len(timestamps) > 0 /\ timestamps[Len(timestamps)] > t)
              => (~Observed(t))']_vars

\* A step of one of the two collecting loops in which a read of the chain
\* fails or the block search raises
FailedCollectStep ==
    \/ /\ pc = "collect_loop"
       /\ idx <= Len(missing_timestamps)
       /\ \/ faults' = faults + 1
          \/ ~locate(chain, missing_timestamps[idx], current_block, current_timestamp,
                     "collect_historical_data").ok
    \/ /\ pc = "collect_targets"
       /\ to_collect # <<>>
       /\ \/ faults' = faults + 1
          \/ ~locate(chain, Head(to_collect), current_block, current_timestamp, "main").ok

\* C17: a step of the backfill or of the target collection in which a read
\* fails leaves timestamps, blocks and prices as they were, moves on to the
\* next target of the same loop and does not end the process.
C17_FailedStepLeavesSeries ==
    [][FailedCollectStep =>
          /\ UNCHANGED <<timestamps, blocks, prices>>
          /\ pc' = pc
          /\ pc = "collect_loop" => (idx' = idx + 1 /\ UNCHANGED missing_timestamps)
          /\ pc = "collect_targets" => to_collect' = Tail(to_collect)]_vars

\* C17 witness: the step for 00:00 of the day main runs on has failed (the
\* series holds nothing near it), the later target 06:00 has been inserted
\* and a pass of the monitoring loop has merged the current block.
C17_Witness ==
    /\ pc = "loop"
    /\ ticks >= 1
    /\ faults = 1
    /\ RunDay \in Range(missing_timestamps)
    /\ ~\E k \in 1..Len(timestamps) : Abs(timestamps[k] - RunDay) <= DEDUPE_WINDOW
    /\ \E k \in 1..Len(timestamps) : Abs(timestamps[k] - (RunDay + 6 * 3600)) <= DEDUPE_WINDOW
    /\ lastOp.op = "add"
    /\ timestamps[Len(timestamps)] = current_timestamp

\* C18: a failing read of the current block at start-up ends the process
\* before the backfill and the loop, with the series and the file as they
\* were loaded; the process ends in no other way; a failing read in a pass
\* of the loop leaves the series and the file as they were and the loop
\* running.
C18_OnlyStartupFailureIsFatal ==
    /\ [](pc = "exited" =>
             /\ ticks = 0
             /\ idx = 0
             /\ lastOp = NoOp
             /\ saved = Series
             /\ timestamps \in LoadedSeries
             /\ ~ENABLED NextMain)
    /\ [][/\ (pc = "main_start" /\ faults' = faults + 1) => pc' = "exited"
          /\ pc' = "exited" => (pc = "main_start" /\ faults' = faults + 1)
          /\ (pc = "loop" /\ faults' = faults + 1) =>
                (pc' = "loop" /\ UNCHANGED <<timestamps, blocks, prices, saved>>)]_vars

\* C18 witness: the process has ended on the failing first read, the two
\* loaded observations still in memory and in the file.
C18_Witness ==
    /\ pc = "exited"
    /\ faults = 1
    /\ Len(timestamps) = 2
    /\ saved = Series
    /\ current_block = 0

\* C21: in every state of main the series holds no two neighbouring entries
\* that were both merged as current-block samples outside a target time
\* (is_target = FALSE): at most one such entry lies between two entries
\* merged as target observations, and at most one after the last of them.
\* The same holds with the entries told apart by their time of day
\* (is_target_time of the timestamp).
C21_NoPreviewAccumulation ==
    /\ \A k \in 1..(Len(merged_as) - 1) :
          ~(merged_as[k] = "preview" /\ merged_as[k + 1] = "preview")
    /\ \A k \in 1..(Len(timestamps) - 1) :
          ~(~is_target_time(timestamps[k], 30) /\ ~is_target_time(timestamps[k + 1], 30))

\* C21 witness: started at 12:26:00, the passes of 12:26:30, 12:31:30 and
\* 12:36:30 have left the first sample, taken as a target observation, and
\* the third, which has replaced the second.
C21_Witness ==
    /\ pc = "loop"
    /\ ticks = 3
    /\ timestamps = <<RunDay + 12 * 3600 + 26 * 60 + 30, RunDay + 12 * 3600 + 36 * 60 + 30>>
    /\ merged_as = <<"canonical", "preview">>
    /\ saved = Series

\* A pass of the loop in which the current block and its price are read
LiveStep == pc = "loop" /\ pc' = "collect_targets"

\* C23: in a pass whose current timestamp is less than 4 minutes after the
\* last entry the current block is not merged: the three lists and the file
\* stay as they are.  In any other pass the current block is merged and
\* saved, it is the last entry, and the list of target times to collect in
\* that pass is empty.
C23_LiveSampleSkippedOrLast ==
    [][LiveStep =>
          IF Len(timestamps) > 0 /\ current_timestamp' - timestamps[Len(timestamps)] < 4 * 60
          THEN UNCHANGED <<timestamps, blocks, prices, saved>>
          ELSE /\ Len(timestamps') > 0
               /\ timestamps'[Len(timestamps')] = current_timestamp'
               /\ blocks'[Len(blocks')] = current_block'
               /\ saved' = SeriesNext
               /\ to_collect' = <<>>]_vars

\* C23 witness: restarted at 12:00:00 on a series ending at 11:58:00, the
\* pass of 12:00:30 has skipped the current block and is about to collect
\* the target 12:00:00.
C23_Witness ==
    /\ pc = "collect_targets"
    /\ ticks = 1
    /\ faults = 0
    /\ current_timestamp = RunDay + 12 * 3600 + 30
    /\ timestamps[Len(timestamps)] = RunDay + 11 * 3600 + 58 * 60
    /\ to_collect = <<RunDay + 12 * 3600>>
    /\ saved = Series

\* C6 (as claimed): two retained observations are less than 30 minutes
\* apart only if both are at target times (within the 30 minutes of
\* is_target_time).
C6_NoCloseObservations ==
    \A i, j \in 1..Len(timestamps) :
        (i # j /\ Abs(timestamps[i] - timestamps[j]) < DEDUPE_WINDOW)
            => (is_target_time(timestamps[i], 30) /\ is_target_time(timestamps[j], 30))

----------------------------------------------------------------------------
(* The calendar functions applied to a timestamp and a tolerance drawn      *)
(* from small sets around the target hours of one day.                      *)

CalendarDay == 40 * SECONDS_PER_DAY

\* Seconds before and after a target hour: on it, one second and one minute
\* off, and on either side of 10 minutes and of 30 minutes
CalendarOffsets == {-3 * 3600, -1860, -1801, -1800, -1799, -660, -601, -600, -1,
                    0, 1, 59, 600, 659, 660, 1800, 1859, 1860}

CalendarTimestamps ==
    {CalendarDay + h * 3600 + d : h \in {0, 6, 12, 18, 24}, d \in CalendarOffsets}

CalendarTolerances == {10, 30}

InitCalendar ==
    /\ \E timestamp \in CalendarTimestamps, tolerance_minutes \in CalendarTolerances :
          cal = [pc |-> "call", timestamp |-> timestamp, tolerance_minutes |-> tolerance_minutes,
                 is_target |-> FALSE, next_target |-> 0]
    /\ retry = NoRetry
    /\ pc = "calendar"
    /\ timestamps = <<>>
    /\ blocks = <<>>
    /\ prices = <<>>
    /\ merged_as = <<>>
    /\ lastOp = NoOp
    /\ calls = 0
    /\ merged = <<>>
    /\ current_block = 0
    /\ current_timestamp = 0
    /\ target_days = 0
    /\ missing_timestamps = <<>>
    /\ chain = NoChain
    /\ loc = NoLoc
    /\ NoMain

calendarFrame == <<storeVars, histVars, pc, clockVars, missingVars, chain, loc, mainVars, retry>>

\* lines 293-309
IsTargetTime ==
    /\ pc = "calendar"
    /\ cal.pc = "call"
    /\ cal' = [cal EXCEPT !.pc = "classified",
                           !.is_target = is_target_time(cal.timestamp, cal.tolerance_minutes)]
    /\ UNCHANGED calendarFrame

\* lines 342-355
GetNextTargetTime ==
    /\ pc = "calendar"
    /\ cal.pc = "classified"
    /\ cal' = [cal EXCEPT !.pc = "done", !.next_target = get_next_target_time(cal.timestamp)]
    /\ UNCHANGED calendarFrame

NextCalendar ==
    \/ IsTargetTime
    \/ GetNextTargetTime

SpecCalendar == InitCalendar /\ [][NextCalendar]_vars

\* The target instants: 00:00, 06:00, 12:00 and 18:00 UTC of every day
IsTargetInstant(t) == t % (6 * 3600) = 0

\* The target instants of the day before CalendarDay up to two days after
TargetInstantsNear == {CalendarDay + h * 3600 : h \in {6 * k - 24 : k \in 0..12}}

\* Seconds from t to the nearest target instant
SecondsFromTarget(t) == Min(t % (6 * 3600), 6 * 3600 - (t % (6 * 3600)))

\* C13 (as claimed): is_target_time(timestamp, tolerance) is true exactly
\* when the timestamp is within tolerance minutes of a target instant, the
\* distance being taken to the nearest instant on either side of the day
\* boundary; farther than the tolerance from every instant, it is false.
C13_TargetTimeWithinTolerance ==
    (pc = "calendar" /\ cal.pc # "call") =>
        (cal.is_target <=> SecondsFromTarget(cal.timestamp) <= cal.tolerance_minutes * 60)

\* C14: get_next_target_time(now) is a target instant, is strictly later
\* than now (also when now is itself a target instant), and no target
\* instant lies strictly between now and it, including when the result is
\* 00:00 of the next day.
C14_NextTargetStrictlyLater ==
    (pc = "calendar" /\ cal.pc = "done") =>
        /\ IsTargetInstant(cal.next_target)
        /\ cal.next_target > cal.timestamp
        /\ \A t \in TargetInstantsNear : ~(cal.timestamp < t /\ t < cal.next_target)

\* C14 witness: at 18:00:00 exactly the result is 00:00:00 of the next day.
C14_Witness ==
    /\ pc = "calendar"
    /\ cal.pc = "done"
    /\ cal.timestamp = CalendarDay + 18 * 3600
    /\ cal.next_target = CalendarDay + SECONDS_PER_DAY

----------------------------------------------------------------------------
(* get_storage_with_retry called on a slot, a block and a number of retries *)
(* drawn from small sets, each read of the storage succeeding or raising.   *)

\* line 76: the default of the parameter retries, as getSlot0 calls it
DEFAULT_RETRIES == 5

RetryCounts == {0, 1, 2, 3, DEFAULT_RETRIES}
RetrySlots == {1, 2}
RetryBlocks == {1, 2, 3}

\* int.from_bytes(w3.eth.get_storage_at(address, slot, block), "big"): a
\* value fixed by the slot and the block
storage_at(slot, block) == 1000 * slot + block

\* A variant of the loop condition that allows one more pass
retry_continues_inclusive(attempt, retries) == attempt <= retries

\* line 78: the loop condition
retry_continues(attempt, retries) == attempt < retries

InitRetry ==
    /\ \E slot \in RetrySlots, block \in RetryBlocks, retries \in RetryCounts :
          retry = [pc |-> "loop", slot |-> slot, block |-> block, retries |-> retries,
                   attempt |-> 0, reads |-> <<>>, value |-> 0]
    /\ cal = NoCal
    /\ pc = "retry"
    /\ timestamps = <<>>
    /\ blocks = <<>>
    /\ prices = <<>>
    /\ merged_as = <<>>
    /\ lastOp = NoOp
    /\ calls = 0
    /\ merged = <<>>
    /\ current_block = 0
    /\ current_timestamp = 0
    /\ target_days = 0
    /\ missing_timestamps = <<>>
    /\ chain = NoChain
    /\ loc = NoLoc
    /\ NoMain

retryFrame == <<storeVars, histVars, pc, clockVars, missingVars, chain, loc, mainVars, cal>>

\* lines 78-88: one pass of the loop, the read returning or raising
RetryAttempt ==
    /\ pc = "retry"
    /\ retry.pc = "loop"
    /\ retry_continues(retry.attempt, retry.retries)
    /\ \E read_ok \in BOOLEAN :
          retry' = IF read_ok
                   THEN [retry EXCEPT !.pc = "returned",
                                      !.reads = Append(retry.reads, "ok"),
                                      !.value = storage_at(retry.slot, retry.block)]
                   ELSE [retry EXCEPT !.attempt = retry.attempt + 1,
                                      !.reads = Append(retry.reads, "failed")]
    /\ UNCHANGED retryFrame

\* line 89: the loop condition is false
RetryRaise ==
    /\ pc = "retry"
    /\ retry.pc = "loop"
    /\ ~retry_continues(retry.attempt, retry.retries)
    /\ retry' = [retry EXCEPT !.pc = "raised"]
    /\ UNCHANGED retryFrame

NextRetry ==
    \/ RetryAttempt
    \/ RetryRaise

SpecRetry == InitRetry /\ [][NextRetry]_vars

\* A read returns or raises and the sleep of line 88 ends
SpecRetryFair == SpecRetry /\ WF_vars(NextRetry)

\* The reads made before the last one have all failed
EarlierReadsFailed == \A k \in 1..(Len(retry.reads) - 1) : retry.reads[k] = "failed"

\* C20: get_storage_with_retry makes at most `retries` reads; it returns on
\* the first read that succeeds, with the value read and without a further
\* read; it raises only after exactly `retries` reads that all failed; and
\* it always ends, returning or raising.
C20_RetryBounded ==
    /\ [](pc = "retry" =>
             /\ Len(retry.reads) <= retry.retries
             /\ EarlierReadsFailed
             /\ retry.pc = "returned" =>
                   /\ retry.reads[Len(retry.reads)] = "ok"
                   /\ retry.value = storage_at(retry.slot, retry.block)
                   /\ ~ENABLED NextRetry
             /\ retry.pc = "raised" =>
                   /\ Len(retry.reads) = retry.retries
                   /\ \A k \in 1..Len(retry.reads) : retry.reads[k] = "failed"
                   /\ ~ENABLED NextRetry)
    /\ <>(retry.pc \in {"returned", "raised"})

\* C20 witness: with the default of 5 retries the call has raised after five
\* failed reads.
C20_Witness ==
    /\ pc = "retry"
    /\ retry.pc = "raised"
    /\ retry.retries = DEFAULT_RETRIES
    /\ retry.reads = <<"failed", "failed", "failed", "failed", "failed">>

====
